---------------------------- MODULE Spec2Model ----------------------------
(***************************************************************************)
(* The two command-line wizards of scripts/cli-tools:                      *)
(*   start_development.py  the scratch-org bootstrap sequencer             *)
(*   pull_metadata.py      the interactive pull wizard                     *)
(* A text is a sequence of characters (one-character strings).  A name of  *)
(* the curated catalog is kept as one indivisible symbol: it holds no      *)
(* blank and no comma, which is all the code's string operations look at.  *)
(***************************************************************************)
EXTENDS Integers, Sequences, FiniteSets, TLC

VARIABLES
    prog,               \* which entry point runs
    pc,                 \* position of the program
    exit_code,          \* the status the process ends with
    running,            \* child processes started and not yet exited
    cmds,               \* commands issued since the last menu prompt (the whole run in the sequencer)
    last_rc,            \* exit status of the last child process that exited
    line,               \* last line read from the operator
    warned,             \* warnings logged since the last menu prompt
    args,               \* start_development: parsed command line
    env,                \* start_development: main's env
    scratch_alias,      \* start_development: main's scratch_alias
    orgs,               \* start_development: login_devhub's orgs
    target_org,         \* pull_metadata: main's target_org
    ignore_conflicts,   \* pull_metadata: main's ignore_conflicts
    menu_choice,        \* pull_metadata: main's choice
    picks,              \* pull_metadata: pull_by_types' picks
    types,              \* pull_metadata: pull_by_types' types
    paths,              \* pull_metadata: pull_by_paths' paths
    manifest_choice,    \* pull_metadata: pull_by_manifest's choice
    manifest_path,      \* pull_metadata: pull_by_manifest's manifest_path
    manifest_exists,    \* pull_metadata: result of the last manifest_path.exists()
    rounds              \* pull_metadata: menu prompts answered so far

vars == <<prog, pc, exit_code, running, cmds, last_rc, line, warned,
          args, env, scratch_alias, orgs,
          target_org, ignore_conflicts, menu_choice, picks, types, paths,
          manifest_choice, manifest_path, manifest_exists, rounds>>

runnerVars == <<pc, exit_code, running, cmds, last_rc>>
devVars == <<args, env, scratch_alias, orgs>>
pullVars == <<target_org, ignore_conflicts, menu_choice, picks, types, paths,
              manifest_choice, manifest_path, manifest_exists, rounds>>
pullLocals == <<picks, types, paths, manifest_choice, manifest_path, manifest_exists>>
pullMain == <<target_org, ignore_conflicts, menu_choice, rounds>>

----------------------------------------------------------------------------
(* Bounds *)

MaxRawPieces == 3       \* pieces an environment name is made of
MaxInputLen == 3        \* characters of a multi-select input line
MaxAnswerLen == 3       \* characters of a yes/no answer
MaxExtraLen == 3        \* characters of a free-form list line
MaxMenu == 2            \* menu prompts answered in one run
MaxExitStatus == 2      \* exit statuses 0..MaxExitStatus of a child process

----------------------------------------------------------------------------
(* Texts *)

RECURSIVE SeqsUpTo(_, _)
SeqsUpTo(S, n) ==
    IF n = 0 THEN {<<>>}
    ELSE LET shorter == SeqsUpTo(S, n - 1)
         IN  shorter \cup {Append(s, c) : s \in shorter, c \in S}

RECURSIVE Flatten(_)
Flatten(ss) == IF ss = <<>> THEN <<>> ELSE Head(ss) \o Flatten(Tail(ss))

Whitespace == {" ", "\t", "\n"}

RECURSIVE lstrip(_)
lstrip(s) ==
    IF s # <<>> /\ Head(s) \in Whitespace THEN lstrip(Tail(s)) ELSE s

RECURSIVE rstrip(_)
rstrip(s) ==
    IF s # <<>> /\ s[Len(s)] \in Whitespace
    THEN rstrip(SubSeq(s, 1, Len(s) - 1)) ELSE s

strip(s) == rstrip(lstrip(s))

lower_char(c) ==
    CASE c = "A" -> "a" [] c = "D" -> "d" [] c = "E" -> "e" [] c = "H" -> "h"
      [] c = "N" -> "n" [] c = "R" -> "r" [] c = "S" -> "s" [] c = "T" -> "t"
      [] c = "Y" -> "y" [] OTHER -> c

lower(s) == [i \in 1..Len(s) |-> lower_char(s[i])]

replace(s, old, new) == [i \in 1..Len(s) |-> IF s[i] = old THEN new ELSE s[i]]

contains(needle, hay) ==
    \E i \in 0..(Len(hay) - Len(needle)) :
        SubSeq(hay, i + 1, i + Len(needle)) = needle

endswith(s, suffix) ==
    /\ Len(suffix) <= Len(s)
    /\ SubSeq(s, Len(s) - Len(suffix) + 1, Len(s)) = suffix

RECURSIVE split(_, _)
split(s, sep) ==
    IF \A i \in 1..Len(s) : s[i] # sep THEN <<s>>
    ELSE LET i == CHOOSE k \in 1..Len(s) :
                      s[k] = sep /\ \A j \in 1..(k - 1) : s[j] # sep
         IN  <<SubSeq(s, 1, i - 1)>> \o split(SubSeq(s, i + 1, Len(s)), sep)

ReviewSuffix == <<"-", "r", "e", "v", "i", "e", "w">>
DevHub == <<"D", "e", "v", "H", "u", "b">>

----------------------------------------------------------------------------
(* start_development.py *)

norm_env_nostrip(name) == replace(lower(name), " ", "-")

norm_env(name) == replace(lower(strip(name)), " ", "-")

RawPieces == {<<" ">>, <<"\t">>, <<"A">>, <<"r", "e", "v", "i", "e", "w">>}
RawEnvNames == {Flatten(ps) : ps \in SeqsUpTo(RawPieces, MaxRawPieces)}

OrgListings == {<<>>, DevHub, lower(DevHub), <<"x", " ">> \o DevHub \o <<"\n">>}

ExitStatuses == 0..MaxExitStatus

NoArgs == [environment |-> <<>>, review |-> FALSE,
           force_devhub_connection |-> FALSE, preview |-> FALSE]

Cmd(stage, name, a, passthrough) ==
    [stage |-> stage, name |-> name, args |-> a, passthrough |-> passthrough]

(* run_subprocess: the child is started and announced; the call returns    *)
(* when the child has exited; a non-zero status ends the program.          *)
run_subprocess_unchecked(cmd, rc, nxt) ==
    \/ /\ running = {}
       /\ running' = running \cup {cmd}
       /\ cmds' = Append(cmds, cmd)
       /\ UNCHANGED <<pc, exit_code, last_rc>>
    \/ /\ cmd \in running
       /\ running' = running \ {cmd}
       /\ last_rc' = rc
       /\ pc' = nxt
       /\ UNCHANGED <<exit_code, cmds>>

run_subprocess(cmd, rc, nxt) ==
    \/ /\ running = {}
       /\ running' = running \cup {cmd}
       /\ cmds' = Append(cmds, cmd)
       /\ UNCHANGED <<pc, exit_code, last_rc>>
    \/ /\ cmd \in running
       /\ running' = running \ {cmd}
       /\ last_rc' = rc
       /\ IF rc = 0
          THEN pc' = nxt /\ UNCHANGED exit_code
          ELSE pc' = "exited" /\ exit_code' = 1
       /\ UNCHANGED <<cmds>>

Returned(rc) == running # {} /\ rc = 0

(* main: the order in which it calls the stages *)
main_after_deploy_first(fn) ==
    CASE fn = "main" -> "git_prepare_branch"
      [] fn = "git_prepare_branch" -> "check_sfcli_exists"
      [] fn = "check_sfcli_exists" -> "login_devhub"
      [] fn = "login_devhub" -> "deploy_source_metadata"
      [] fn = "deploy_source_metadata" -> "create_scratch_org"
      [] fn = "create_scratch_org" -> "open_scratch_org"
      [] fn = "open_scratch_org" -> "done"

main_after(fn) ==
    CASE fn = "main" -> "git_prepare_branch"
      [] fn = "git_prepare_branch" -> "check_sfcli_exists"
      [] fn = "check_sfcli_exists" -> "login_devhub"
      [] fn = "login_devhub" -> "create_scratch_org"
      [] fn = "create_scratch_org" -> "deploy_source_metadata"
      [] fn = "deploy_source_metadata" -> "open_scratch_org"
      [] fn = "open_scratch_org" -> "done"

(* main, lines 192-202: parse the command line, derive env and alias *)
main_alias_always_review(e, review) == e \o ReviewSuffix

main_alias(e, review) == IF review THEN e \o ReviewSuffix ELSE e

main_branch_name_alias(e, alias) == alias

main_branch_name(e, alias) == e

dev_main ==
    /\ prog = "start_development" /\ pc = "main"
    /\ \E raw \in RawEnvNames, rv \in BOOLEAN, fa \in BOOLEAN, pv \in BOOLEAN :
         /\ args' = [environment |-> raw, review |-> rv,
                     force_devhub_connection |-> fa, preview |-> pv]
         /\ env' = norm_env(raw)
         /\ scratch_alias' = main_alias(norm_env(raw), rv)
    /\ pc' = main_after("main")
    /\ UNCHANGED <<prog, exit_code, running, cmds, last_rc, line, warned, orgs>>
    /\ UNCHANGED pullVars

(* git_prepare_branch( env, args.review ) *)
git_prepare_branch ==
    /\ prog = "start_development"
    /\ LET environment_name == main_branch_name(env, scratch_alias)
           review_mode == args.review
       IN
       \E rc \in ExitStatuses, existing_git_branch \in
               {<<>>, <<" ", " ">> \o environment_name \o <<"\n">>,
                <<"*", " ">> \o environment_name \o <<"\n">>} :
         \/ /\ pc = "git_prepare_branch"
            /\ run_subprocess(Cmd(1, "git checkout main", <<>>, TRUE), rc, "git_pull")
         \/ /\ pc = "git_pull"
            /\ run_subprocess(Cmd(1, "git pull origin main", <<>>, TRUE), rc,
                              IF ~review_mode THEN "git_new_branch" ELSE "git_branch_list")
         \/ /\ pc = "git_new_branch"
            /\ run_subprocess(Cmd(1, "git checkout -b", <<environment_name>>, TRUE), rc,
                              main_after("git_prepare_branch"))
         \/ /\ pc = "git_branch_list"
            /\ run_subprocess(Cmd(1, "git branch --list", <<environment_name>>, FALSE), rc,
                              IF contains(environment_name, existing_git_branch)
                              THEN "git_branch_delete" ELSE "git_checkout_review")
         \/ /\ pc = "git_branch_delete"
            /\ run_subprocess(Cmd(1, "git branch -D", <<environment_name>>, TRUE), rc,
                              "git_checkout_review")
         \/ /\ pc = "git_checkout_review"
            /\ run_subprocess(Cmd(1, "git checkout -b origin", <<environment_name>>, TRUE), rc,
                              main_after("git_prepare_branch"))
    /\ UNCHANGED <<prog, line, warned>>
    /\ UNCHANGED devVars
    /\ UNCHANGED pullVars

check_sfcli_exists ==
    /\ prog = "start_development" /\ pc = "check_sfcli_exists"
    /\ \E rc \in ExitStatuses :
         run_subprocess(Cmd(2, "sf --version", <<>>, FALSE), rc,
                        main_after("check_sfcli_exists"))
    /\ UNCHANGED <<prog, line, warned>>
    /\ UNCHANGED devVars
    /\ UNCHANGED pullVars

(* login_devhub( args.devhub_url, args.force_devhub_connection ) *)
login_verify_skipped(listing) == TRUE

login_verify(listing) == contains(DevHub, listing)

login_devhub ==
    /\ prog = "start_development"
    /\ \E rc \in ExitStatuses, out \in OrgListings :
         \/ /\ pc = "login_devhub"
            /\ run_subprocess(Cmd(3, "sf org list", <<>>, FALSE), rc,
                              IF args.force_devhub_connection \/ ~contains(DevHub, out)
                              THEN "login_web" ELSE "login_verify")
            /\ orgs' = IF Returned(rc) THEN out ELSE orgs
            /\ UNCHANGED warned
         \/ /\ pc = "login_web"
            /\ run_subprocess(Cmd(3, "sf org login web", <<DevHub>>, TRUE), rc, "login_verify")
            /\ UNCHANGED <<orgs, warned>>
         \/ /\ pc = "login_verify"
            /\ run_subprocess(Cmd(3, "sf org list (verify)", <<>>, FALSE), rc,
                              IF login_verify(out)
                              THEN main_after("login_devhub") ELSE "login_missing")
            /\ orgs' = IF Returned(rc) THEN out ELSE orgs
            /\ UNCHANGED warned
         \/ /\ pc = "login_missing"     \* logger.error; sys.exit(1)
            /\ pc' = "exited" /\ exit_code' = 1
            /\ UNCHANGED <<running, cmds, last_rc, orgs, warned>>
    /\ UNCHANGED <<prog, line, args, env, scratch_alias>>
    /\ UNCHANGED pullVars

create_scratch_org ==
    /\ prog = "start_development"
    /\ LET environment_name == scratch_alias
           duration_in_days == IF args.review THEN <<"7">> ELSE <<"3", "0">>
           release == IF args.preview THEN <<<<"P", "r", "e", "v", "i", "e", "w">>>> ELSE <<>>
       IN
       \/ /\ pc = "create_scratch_org"
          /\ \E scratch_def_exists \in BOOLEAN :
               IF scratch_def_exists
               THEN pc' = "create_run" /\ UNCHANGED exit_code
               ELSE pc' = "exited" /\ exit_code' = 1
          /\ UNCHANGED <<running, cmds, last_rc>>
       \/ /\ pc = "create_run"
          /\ \E rc \in ExitStatuses :
               run_subprocess(Cmd(4, "sf org create scratch",
                                  <<environment_name, duration_in_days>> \o release, TRUE),
                              rc, main_after("create_scratch_org"))
    /\ UNCHANGED <<prog, line, warned>>
    /\ UNCHANGED devVars
    /\ UNCHANGED pullVars

deploy_source_metadata ==
    /\ prog = "start_development"
    /\ LET environment_name == scratch_alias
       IN
       \/ /\ pc = "deploy_source_metadata"
          /\ \E project_dir_exists \in BOOLEAN :
               IF project_dir_exists
               THEN pc' = "deploy_run" /\ UNCHANGED exit_code
               ELSE pc' = "exited" /\ exit_code' = 1
          /\ UNCHANGED <<running, cmds, last_rc>>
       \/ /\ pc = "deploy_run"
          /\ \E rc \in ExitStatuses :
               run_subprocess(Cmd(5, "sf project deploy start", <<environment_name>>, TRUE),
                              rc, main_after("deploy_source_metadata"))
    /\ UNCHANGED <<prog, line, warned>>
    /\ UNCHANGED devVars
    /\ UNCHANGED pullVars

open_scratch_org ==
    /\ prog = "start_development" /\ pc = "open_scratch_org"
    /\ LET environment_name == scratch_alias
       IN  \E rc \in ExitStatuses :
             run_subprocess(Cmd(6, "sf org open", <<environment_name>>, TRUE), rc,
                            main_after("open_scratch_org"))
    /\ UNCHANGED <<prog, line, warned>>
    /\ UNCHANGED devVars
    /\ UNCHANGED pullVars

----------------------------------------------------------------------------
(* pull_metadata.py *)

(* run: as run_subprocess *)
run(cmd, rc, nxt) ==
    \/ /\ running = {}
       /\ running' = running \cup {cmd}
       /\ cmds' = Append(cmds, cmd)
       /\ UNCHANGED <<pc, exit_code, last_rc>>
    \/ /\ cmd \in running
       /\ running' = running \ {cmd}
       /\ last_rc' = rc
       /\ IF rc = 0
          THEN pc' = nxt /\ UNCHANGED exit_code
          ELSE pc' = "exited" /\ exit_code' = 1
       /\ UNCHANGED <<cmds>>

ask(typed, default) == IF strip(typed) # <<>> THEN strip(typed) ELSE default

Yes == {<<"y">>, <<"y", "e", "s">>}

ask_bool_default_yes(typed, default) ==
    LET val == lower(strip(typed))
    IN  IF val = <<>> THEN TRUE ELSE val \in Yes

ask_bool(typed, default) ==
    LET val == lower(strip(typed))
    IN  IF val = <<>> THEN default ELSE val \in Yes

(* str.isdigit() holds of the decimal digits and of digit characters that  *)
(* are no decimals, such as the superscript two, written "sup2" here;      *)
(* int() raises ValueError on a text holding one of the latter.            *)
DecimalChars == {"0", "1", "2", "3", "4", "5", "6", "7", "8", "9"}
DigitChars == DecimalChars \cup {"sup2"}

isdigit(s) == s # <<>> /\ \A i \in 1..Len(s) : s[i] \in DigitChars

int_raises(s) == \E i \in 1..Len(s) : s[i] \notin DecimalChars

digit_value(c) ==
    CASE c = "0" -> 0 [] c = "1" -> 1 [] c = "2" -> 2 [] c = "3" -> 3 [] c = "4" -> 4
      [] c = "5" -> 5 [] c = "6" -> 6 [] c = "7" -> 7 [] c = "8" -> 8 [] c = "9" -> 9

RECURSIVE int(_)
int(s) ==
    IF s = <<>> THEN 0
    ELSE 10 * int(SubSeq(s, 1, Len(s) - 1)) + digit_value(s[Len(s)])

WarnNotNumber == "Ignoring (not a number)."
WarnOutOfRange == "Ignoring (out of range)."
WarnNoTypes == "No types selected. Nothing to do."
WarnNoPaths == "No paths provided. Nothing to do."
WarnInvalidManifestChoice == "Invalid choice; aborting manifest flow."
WarnReset == "This will reset local source tracking."
WarnInvalidChoice == "Invalid choice. Try again."

(* choose_many, lines 91-103: the loop over the tokens *)
RECURSIVE choose_loop(_, _, _)
choose_loop(tokens, options, acc) ==
    IF tokens = <<>> THEN acc
    ELSE LET token == strip(Head(tokens))
             rest == Tail(tokens)
         IN  IF token = <<>> THEN choose_loop(rest, options, acc)
             ELSE IF ~isdigit(token)
             THEN choose_loop(rest, options,
                              [acc EXCEPT !.warnings = Append(@, WarnNotNumber)])
             ELSE IF int_raises(token) THEN [acc EXCEPT !.raised = TRUE]
             ELSE LET idx == int(token)
                  IN  IF 1 <= idx /\ idx <= Len(options)
                      THEN choose_loop(rest, options,
                                       [acc EXCEPT !.picks = Append(@, options[idx])])
                      ELSE choose_loop(rest, options,
                                       [acc EXCEPT !.warnings = Append(@, WarnOutOfRange)])

choose_many(options, typed) ==
    LET raw == strip(typed)
        none == [picks |-> <<>>, warnings |-> <<>>, raised |-> FALSE]
    IN  IF raw = <<>> THEN none ELSE choose_loop(split(raw, ","), options, none)

CURATED_TYPES ==
    << <<"ApexClass">>, <<"ApexTrigger">>, <<"ApexPage">>, <<"ApexComponent">>,
       <<"LightningComponentBundle">>, <<"AuraDefinitionBundle">>,
       <<"LightningMessageChannel">>, <<"CustomObject">>, <<"CustomField">>,
       <<"Layout">>, <<"RecordType">>, <<"Flow">>, <<"FlowDefinition">>,
       <<"ValidationRule">>, <<"PermissionSet">>, <<"PermissionSetGroup">>,
       <<"Profile">>, <<"FlexiPage">>, <<"GlobalValueSet">>, <<"StaticResource">>,
       <<"CustomApplication">>, <<"CustomTab">>, <<"RemoteSiteSetting">>,
       <<"NamedCredential">>, <<"ConnectedApp">>, <<"EmailTemplate">>, <<"Report">>,
       <<"Dashboard">>, <<"ReportType">>, <<"Translations">> >>

(* [t.strip() for t in text.split(",") if t.strip()] *)
RECURSIVE stripped_nonblank(_)
stripped_nonblank(tokens) ==
    IF tokens = <<>> THEN <<>>
    ELSE LET t == strip(Head(tokens))
         IN  (IF t # <<>> THEN <<t>> ELSE <<>>) \o stripped_nonblank(Tail(tokens))

(* Inputs of the operator *)
ChooseChars == {"1", "x", ",", " ", "sup2"}
ChooseInputs == SeqsUpTo(ChooseChars, MaxInputLen)
AnswerChars == {"y", "Y", "e", "s", " "}
BoolAnswers == SeqsUpTo(AnswerChars, MaxAnswerLen)
ExtraInputs == SeqsUpTo({"T", ",", " "}, MaxExtraLen)
PathInputs == SeqsUpTo({"p", ",", " "}, MaxExtraLen)
ManifestPathInputs == {<<>>, <<" ">>, <<"p">>, <<"/", "p">>}
OrgInputs == {<<>>, <<" ">>, <<"o">>}
MenuInputs == {<<"1">>, <<"2">>, <<"3">>, <<"4">>, <<"5">>, <<"6">>, <<"7">>,
               <<>>, <<" ", "2">>, <<"x">>}

Flag(name) == <<name>>

RECURSIVE FlagEach(_, _, _)
FlagEach(flag, values, suffix) ==
    IF values = <<>> THEN <<>>
    ELSE <<Flag(flag), Head(values) \o suffix>> \o FlagEach(flag, Tail(values), suffix)

RetrieveArgs(filters) ==
    <<Flag("--target-org"), target_org>> \o filters
        \o (IF ignore_conflicts THEN <<Flag("--ignore-conflicts")>> ELSE <<>>)

(* main, lines 254-282: project root, target org, conflict policy *)
pull_main ==
    /\ prog = "pull_metadata" /\ pc = "main"
    /\ \E project_root_found \in BOOLEAN, args_target_org \in {<<>>, <<"o">>},
          default_alias \in {<<>>, <<"d">>}, typed_org \in OrgInputs,
          args_ignore_conflicts \in BOOLEAN, typed_ignore \in BoolAnswers :
         LET org == IF args_target_org # <<>> THEN args_target_org
                    ELSE ask(typed_org, default_alias)
         IN  IF ~project_root_found
             THEN /\ pc' = "exited" /\ exit_code' = 1
                  /\ UNCHANGED <<line, target_org, ignore_conflicts>>
             ELSE IF org = <<>>
             THEN /\ pc' = "exited" /\ exit_code' = 1
                  /\ line' = typed_org
                  /\ UNCHANGED <<target_org, ignore_conflicts>>
             ELSE /\ pc' = "menu" /\ UNCHANGED exit_code
                  /\ target_org' = org
                  /\ ignore_conflicts' =
                         (args_ignore_conflicts \/ ask_bool(typed_ignore, FALSE))
                  /\ line' = IF args_ignore_conflicts
                             THEN (IF args_target_org # <<>> THEN line ELSE typed_org)
                             ELSE typed_ignore
    /\ UNCHANGED <<prog, running, cmds, last_rc, warned, menu_choice, rounds>>
    /\ UNCHANGED pullLocals
    /\ UNCHANGED devVars

(* main, lines 284-309: one pass of the menu loop up to the dispatch *)
menu_dispatch_no_exit(choice) ==
    CASE choice = <<"1">> -> "pull_everything"
      [] choice = <<"2">> -> "pull_by_types"
      [] choice = <<"3">> -> "pull_by_paths"
      [] choice = <<"4">> -> "pull_by_manifest"
      [] choice = <<"5">> -> "reset_run"
      [] choice = <<"6">> -> "done"
      [] OTHER -> "menu"

menu_dispatch_invalid_exits(choice) ==
    CASE choice = <<"1">> -> "pull_everything"
      [] choice = <<"2">> -> "pull_by_types"
      [] choice = <<"3">> -> "pull_by_paths"
      [] choice = <<"4">> -> "pull_by_manifest"
      [] choice = <<"5">> -> "reset_tracking"
      [] OTHER -> "done"

menu_dispatch(choice) ==
    CASE choice = <<"1">> -> "pull_everything"
      [] choice = <<"2">> -> "pull_by_types"
      [] choice = <<"3">> -> "pull_by_paths"
      [] choice = <<"4">> -> "pull_by_manifest"
      [] choice = <<"5">> -> "reset_tracking"
      [] choice = <<"6">> -> "done"
      [] OTHER -> "menu"

menu ==
    /\ prog = "pull_metadata" /\ pc = "menu"
    /\ rounds < MaxMenu
    /\ \E typed \in MenuInputs :
         LET choice == strip(typed)
         IN  /\ line' = typed
             /\ menu_choice' = choice
             /\ pc' = menu_dispatch(choice)
             /\ warned' = IF menu_dispatch(choice) = "menu"
                          THEN <<WarnInvalidChoice>> ELSE <<>>
    /\ rounds' = rounds + 1
    /\ cmds' = <<>>
    \* the locals of the handler that returned are gone
    /\ picks' = <<>> /\ types' = <<>> /\ paths' = <<>>
    /\ manifest_choice' = <<>> /\ manifest_path' = <<>> /\ manifest_exists' = FALSE
    /\ UNCHANGED <<prog, exit_code, running, last_rc, target_org, ignore_conflicts>>
    /\ UNCHANGED devVars

pull_everything ==
    /\ prog = "pull_metadata" /\ pc = "pull_everything"
    /\ \E rc \in ExitStatuses :
         run(Cmd(0, "sf project retrieve start", RetrieveArgs(<<>>), TRUE), rc, "menu")
    /\ UNCHANGED <<prog, line, warned>>
    /\ UNCHANGED pullVars
    /\ UNCHANGED devVars

(* pull_by_types, lines 158-160 and 162 *)
combine_types(chosen, extra) ==
    chosen \o (IF extra # <<>> THEN stripped_nonblank(split(extra, ",")) ELSE <<>>)

nothing_selected_never(selection) == FALSE

nothing_selected(selection) == selection = <<>>

pull_by_types ==
    /\ prog = "pull_metadata"
    /\ \/ /\ pc = "pull_by_types"
          /\ \E typed \in ChooseInputs :
               LET r == choose_many(CURATED_TYPES, typed)
               IN  /\ line' = typed
                   /\ IF r.raised
                      THEN /\ pc' = "crashed" /\ exit_code' = 1
                           /\ UNCHANGED picks
                      ELSE /\ pc' = "types_extra" /\ UNCHANGED exit_code
                           /\ picks' = r.picks
                   /\ warned' = warned \o r.warnings
          /\ UNCHANGED <<running, cmds, last_rc, types>>
       \/ /\ pc = "types_extra"
          /\ \E typed \in ExtraInputs :
               LET extra == strip(ask(typed, <<>>))
                   selection == combine_types(picks, extra)
               IN  /\ line' = typed
                   /\ types' = selection
                   /\ IF nothing_selected(selection)
                      THEN warned' = Append(warned, WarnNoTypes) /\ pc' = "menu"
                      ELSE UNCHANGED warned /\ pc' = "types_run"
          /\ UNCHANGED <<exit_code, running, cmds, last_rc, picks>>
       \/ /\ pc = "types_run"
          /\ \E rc \in ExitStatuses :
               run(Cmd(0, "sf project retrieve start",
                       RetrieveArgs(FlagEach("--metadata", types, <<":", "*">>)), TRUE),
                   rc, "menu")
          /\ UNCHANGED <<line, warned, picks, types>>
    /\ UNCHANGED <<prog, paths, manifest_choice, manifest_path, manifest_exists>>
    /\ UNCHANGED pullMain
    /\ UNCHANGED devVars

pull_by_paths ==
    /\ prog = "pull_metadata"
    /\ \/ /\ pc = "pull_by_paths"
          /\ \E typed \in PathInputs :
               LET raw == strip(typed)
               IN  /\ line' = typed
                   /\ IF raw = <<>>
                      THEN /\ warned' = Append(warned, WarnNoPaths)
                           /\ pc' = "menu"
                           /\ UNCHANGED paths
                      ELSE /\ paths' = stripped_nonblank(split(raw, ","))
                           /\ pc' = "paths_run"
                           /\ UNCHANGED warned
          /\ UNCHANGED <<exit_code, running, cmds, last_rc>>
       \/ /\ pc = "paths_run"
          /\ \E rc \in ExitStatuses :
               run(Cmd(0, "sf project retrieve start",
                       RetrieveArgs(FlagEach("--source-dir", paths, <<>>)), TRUE),
                   rc, "menu")
          /\ UNCHANGED <<line, warned, paths>>
    /\ UNCHANGED <<prog, picks, types, manifest_choice, manifest_path, manifest_exists>>
    /\ UNCHANGED pullMain
    /\ UNCHANGED devVars

(* project_root / mp *)
project_join(mp) ==
    IF mp # <<>> /\ Head(mp) = "/" THEN mp ELSE <<"<project_root>", "/">> \o mp

DefaultManifest == <<"manifest", "/", "package.xml">>

(* pull_by_manifest, lines 215-217 and 227-229: the manifest must exist *)
manifest_gate_open(exists) == "manifest_run"

manifest_gate(exists) == IF exists THEN "manifest_run" ELSE "exited"

pull_by_manifest ==
    /\ prog = "pull_metadata"
    /\ \/ /\ pc = "pull_by_manifest"
          /\ \E typed \in {<<"1">>, <<"2">>, <<" ", "2">>, <<"3">>, <<>>} :
               LET choice == strip(typed)
               IN  /\ line' = typed
                   /\ manifest_choice' = choice
                   /\ IF choice = <<"1">>
                      THEN pc' = "manifest_ask" /\ UNCHANGED warned
                      ELSE IF choice = <<"2">>
                      THEN pc' = "manifest_mkdir" /\ UNCHANGED warned
                      ELSE /\ warned' = Append(warned, WarnInvalidManifestChoice)
                           /\ pc' = "menu"
          /\ manifest_path' = <<>>
          /\ manifest_exists' = FALSE
          /\ UNCHANGED <<exit_code, running, cmds, last_rc>>
       \/ /\ pc = "manifest_ask"
          /\ \E typed \in ManifestPathInputs, default_exists \in BOOLEAN, exists \in BOOLEAN :
               LET mp == ask(typed, IF default_exists THEN project_join(DefaultManifest)
                                    ELSE DefaultManifest)
               IN  /\ line' = typed
                   /\ manifest_path' = project_join(mp)
                   /\ manifest_exists' = exists
                   /\ pc' = manifest_gate(exists)
                   /\ exit_code' = IF manifest_gate(exists) = "exited" THEN 1 ELSE exit_code
          /\ UNCHANGED <<running, cmds, last_rc, warned, manifest_choice>>
       \/ /\ pc = "manifest_mkdir"      \* out_dir.mkdir( parents, exist_ok )
          /\ \E mkdir_ok \in BOOLEAN :
               IF mkdir_ok THEN pc' = "manifest_generate" /\ UNCHANGED exit_code
               ELSE pc' = "crashed" /\ exit_code' = 1
          /\ UNCHANGED <<running, cmds, last_rc, line, warned,
                         manifest_choice, manifest_path, manifest_exists>>
       \/ /\ pc = "manifest_generate"
          /\ \E rc \in ExitStatuses :
               run(Cmd(0, "sf project generate manifest",
                       <<Flag("--from-org"), target_org, Flag("--output-dir"),
                         project_join(<<"manifest">>)>>, TRUE),
                   rc, "manifest_check")
          /\ UNCHANGED <<line, warned, manifest_choice, manifest_path, manifest_exists>>
       \/ /\ pc = "manifest_check"
          /\ \E exists \in BOOLEAN :
               /\ manifest_path' = project_join(DefaultManifest)
               /\ manifest_exists' = exists
               /\ pc' = manifest_gate(exists)
               /\ exit_code' = IF manifest_gate(exists) = "exited" THEN 1 ELSE exit_code
          /\ UNCHANGED <<running, cmds, last_rc, line, warned, manifest_choice>>
       \/ /\ pc = "manifest_run"
          /\ \E rc \in ExitStatuses :
               run(Cmd(0, "sf project retrieve start",
                       RetrieveArgs(<<Flag("--manifest"), manifest_path>>), TRUE),
                   rc, "menu")
          /\ UNCHANGED <<line, warned, manifest_choice, manifest_path, manifest_exists>>
    /\ UNCHANGED <<prog, picks, types, paths>>
    /\ UNCHANGED pullMain
    /\ UNCHANGED devVars

reset_tracking ==
    /\ prog = "pull_metadata"
    /\ \/ /\ pc = "reset_tracking"
          /\ \E typed \in BoolAnswers :
               /\ line' = typed
               /\ warned' = Append(warned, WarnReset)
               /\ pc' = IF ~ask_bool(typed, FALSE) THEN "menu" ELSE "reset_run"
          /\ UNCHANGED <<exit_code, running, cmds, last_rc>>
       \/ /\ pc = "reset_run"
          /\ \E rc \in ExitStatuses :
               run(Cmd(0, "sf project reset tracking",
                       <<Flag("--target-org"), target_org, Flag("--no-prompt")>>, TRUE),
                   rc, "menu")
          /\ UNCHANGED <<line, warned>>
    /\ UNCHANGED <<prog>>
    /\ UNCHANGED pullVars
    /\ UNCHANGED devVars

----------------------------------------------------------------------------
(* The system *)

InitVars ==
    /\ pc = "main"
    /\ exit_code = 0
    /\ running = {}
    /\ cmds = <<>>
    /\ last_rc = 0
    /\ line = <<>>
    /\ warned = <<>>
    /\ args = NoArgs
    /\ env = <<>>
    /\ scratch_alias = <<>>
    /\ orgs = <<>>
    /\ target_org = <<>>
    /\ ignore_conflicts = FALSE
    /\ menu_choice = <<>>
    /\ picks = <<>>
    /\ types = <<>>
    /\ paths = <<>>
    /\ manifest_choice = <<>>
    /\ manifest_path = <<>>
    /\ manifest_exists = FALSE
    /\ rounds = 0

InitDev == prog = "start_development" /\ InitVars
InitPull == prog = "pull_metadata" /\ InitVars
Init == InitDev \/ InitPull

NextDev ==
    \/ dev_main
    \/ git_prepare_branch
    \/ check_sfcli_exists
    \/ login_devhub
    \/ create_scratch_org
    \/ deploy_source_metadata
    \/ open_scratch_org

NextPull ==
    \/ pull_main
    \/ menu
    \/ pull_everything
    \/ pull_by_types
    \/ pull_by_paths
    \/ pull_by_manifest
    \/ reset_tracking

Next == NextDev \/ NextPull

(* Either wizard; the sequencer alone; the pull wizard alone *)
Spec == Init /\ [][Next]_vars
SpecDev == InitDev /\ [][NextDev]_vars
SpecPull == InitPull /\ [][NextPull]_vars

----------------------------------------------------------------------------
(* Properties *)

Dev == prog = "start_development"
Pull == prog = "pull_metadata"
Issued(name) == \E i \in 1..Len(cmds) : cmds[i].name = name
LastCmd == cmds[Len(cmds)]

\* C1: in both wizards a command that exits with a non-zero status ends the
\* program with exit code 1, and no command is issued afterwards.
C1_FailedCommandIsFatal ==
    /\ [](last_rc # 0 => pc = "exited" /\ exit_code = 1 /\ running = {})
    /\ [][last_rc # 0 => cmds' = cmds /\ running' = running]_vars

C1_Witness ==
    /\ Pull /\ last_rc # 0 /\ pc = "exited" /\ exit_code = 1
    /\ rounds = 2 /\ Len(cmds) = 2

\* C2: the sequencer issues its commands in stage order 1..6 with no stage
\* skipped, a command is issued only when every earlier one has exited with
\* status 0, and at most one command runs at a time.
C2_StageOrder ==
    Dev =>
      /\ Cardinality(running) <= 1
      /\ running \subseteq (IF cmds = <<>> THEN {} ELSE {LastCmd})
      /\ cmds # <<>> => cmds[1].stage = 1
      /\ \A i \in 1..(Len(cmds) - 1) :
           /\ cmds[i].stage <= cmds[i + 1].stage
           /\ cmds[i + 1].stage <= cmds[i].stage + 1
      /\ (Len(cmds) >= 2 /\ running # {}) => last_rc = 0
      /\ (last_rc # 0) => running = {} /\ pc = "exited"

C2_Witness ==
    /\ Dev /\ pc = "done" /\ exit_code = 0
    /\ {cmds[i].stage : i \in 1..Len(cmds)} = 1..6

\* C3: when the account listing taken after the login step lacks the hub
\* alias, the sequencer ends with exit code 1 and never issues a creation,
\* deployment or launch command.
VerifyListed ==
    /\ cmds # <<>> /\ LastCmd.name = "sf org list (verify)"
    /\ running = {} /\ last_rc = 0

C3_NoCreateWithoutHub ==
    /\ [](Dev =>
            /\ (\E i \in 1..Len(cmds) : cmds[i].stage >= 4) => contains(DevHub, orgs)
            /\ (VerifyListed /\ ~contains(DevHub, orgs)) =>
                   /\ pc \in {"login_missing", "exited"}
                   /\ pc = "exited" => exit_code = 1)
    /\ [][pc = "login_missing" =>
            pc' = "exited" /\ exit_code' = 1 /\ cmds' = cmds /\ running' = {}]_vars

C3_Witness ==
    /\ Dev /\ pc = "exited" /\ exit_code = 1
    /\ VerifyListed /\ ~contains(DevHub, orgs)
    /\ Issued("sf org login web")

\* C4 as stated: one alias, computed once, is the string every stage that
\* names the environment or branch uses.
BranchCmds == {"git checkout -b", "git branch --list", "git branch -D",
               "git checkout -b origin"}
OrgCmds == {"sf org create scratch", "sf project deploy start", "sf org open"}

C4_OneAliasEverywhere ==
    Dev => \A i \in 1..Len(cmds) :
             cmds[i].name \in BranchCmds \cup OrgCmds => cmds[i].args[1] = scratch_alias

\* C4 as amended: the scratch alias is computed once and used unchanged by
\* environment creation, deployment and launch; branch preparation uses the
\* normalized name without the suffix, which is the alias only in fresh mode.
C4_AliasPerStage ==
    /\ [](Dev =>
            /\ \A i \in 1..Len(cmds) :
                 /\ cmds[i].name \in OrgCmds => cmds[i].args[1] = scratch_alias
                 /\ cmds[i].name \in BranchCmds => cmds[i].args[1] = env
            /\ pc # "main" =>
                 /\ ~args.review => scratch_alias = env
                 /\ args.review => scratch_alias = env \o ReviewSuffix)
    /\ [][pc # "main" => scratch_alias' = scratch_alias /\ env' = env]_vars

C4_Witness ==
    /\ Dev /\ pc = "done" /\ args.review
    /\ \E i \in 1..Len(cmds) :
         cmds[i].name = "git checkout -b origin" /\ cmds[i].args[1] # scratch_alias
    /\ \E i \in 1..Len(cmds) :
         cmds[i].name = "sf org open" /\ cmds[i].args[1] = scratch_alias

\* C5 as stated: the alias ends with -review exactly when the run is in
\* review mode.
C5_SuffixIffReview ==
    (Dev /\ pc # "main") => (args.review <=> endswith(scratch_alias, ReviewSuffix))

\* C5 as amended: in review mode the alias ends with -review; outside review
\* mode no suffix is appended, so the alias is the normalized name and ends
\* with -review only when the normalized name itself does.
C5_SuffixAppendedInReview ==
    (Dev /\ pc # "main") =>
      /\ args.review => endswith(scratch_alias, ReviewSuffix)
      /\ ~args.review =>
           /\ scratch_alias = norm_env(args.environment)
           /\ endswith(scratch_alias, ReviewSuffix)
                <=> endswith(norm_env(args.environment), ReviewSuffix)

C5_Witness ==
    /\ Dev /\ pc = "create_run" /\ running # {}
    /\ args.review /\ args.environment = <<"A", " ", "A">>
    /\ LastCmd.args[1] = <<"a", "-", "a">> \o ReviewSuffix

\* C6: norm_env is idempotent, and its result holds no space and no leading
\* or trailing whitespace.
C6_NormIdempotent ==
    (Dev /\ pc # "main") =>
      /\ env = norm_env(args.environment)
      /\ norm_env(env) = env
      /\ \A i \in 1..Len(env) : env[i] # " "
      /\ env # <<>> => env[1] \notin Whitespace /\ env[Len(env)] \notin Whitespace

C6_Witness ==
    /\ Dev /\ pc # "main"
    /\ args.environment = <<"\t", "A", " ">> /\ env = <<"a">>

\* C7: choose_many returns the options named by the tokens that are numbers
\* in 1..len(options), in token order with repeats kept, warns once for
\* every other non-blank token, and never raises or ends the program.
C7_Numeric(t) == t # <<>> /\ \A i \in 1..Len(t) : t[i] \in DecimalChars
C7_Valid(t) == C7_Numeric(t) /\ 1 <= int(t) /\ int(t) <= Len(CURATED_TYPES)

RECURSIVE C7_Picks(_)
C7_Picks(tokens) ==
    IF tokens = <<>> THEN <<>>
    ELSE (IF C7_Valid(Head(tokens)) THEN <<CURATED_TYPES[int(Head(tokens))]>> ELSE <<>>)
             \o C7_Picks(Tail(tokens))

C7_Tokens(typed) ==
    IF strip(typed) = <<>> THEN <<>> ELSE stripped_nonblank(split(strip(typed), ","))

C7_Skipped(typed) ==
    Cardinality({i \in 1..Len(C7_Tokens(typed)) : ~C7_Valid(C7_Tokens(typed)[i])})

ChooseManyActed ==
    Pull /\ menu_choice = <<"2">> /\ pc \in {"types_extra", "crashed"}

C7_ChooseManySkipsInvalid ==
    ChooseManyActed =>
      /\ pc # "crashed" /\ exit_code = 0
      /\ picks = C7_Picks(C7_Tokens(line))
      /\ Len(warned) = C7_Skipped(line)

\* What choose_many does when it returns (not a claim; the part of C7 the code keeps)
C7_WhenItReturns ==
    (ChooseManyActed /\ pc = "types_extra") =>
      /\ picks = C7_Picks(C7_Tokens(line))
      /\ Len(warned) = C7_Skipped(line)

\* C8 as stated: with an empty combined selection pull-by-type issues no
\* command, emits exactly one warning and returns to the menu.
TypesEmpty ==
    /\ Pull /\ menu_choice = <<"2">> /\ types = <<>>
    /\ pc \notin {"pull_by_types", "types_extra", "crashed"}

ManifestRetrieve(c) ==
    \E k \in 1..Len(c.args) : c.args[k] = Flag("--manifest")

InManifest == Pull /\ menu_choice = <<"4">>

C9_NoRetrieveOfAbsentManifest ==
    InManifest =>
      /\ (manifest_path # <<>> /\ ~manifest_exists) =>
           /\ pc = "exited" /\ exit_code = 1 /\ running = {}
           /\ \A i \in 1..Len(cmds) : ~ManifestRetrieve(cmds[i])
           /\ manifest_choice = <<"1">> => cmds = <<>>
           /\ manifest_choice = <<"2">> =>
                Len(cmds) = 1 /\ cmds[1].name = "sf project generate manifest"
      /\ \A i \in 1..Len(cmds) : ManifestRetrieve(cmds[i]) =>
           /\ manifest_exists /\ cmds[i].args[4] = manifest_path
           /\ manifest_choice = <<"1">> => i = 1
           /\ manifest_choice = <<"2">> =>
                i = 2 /\ cmds[1].name = "sf project generate manifest"

C9_Witness ==
    /\ InManifest /\ manifest_choice = <<"2">>
    /\ pc = "exited" /\ exit_code = 1 /\ last_rc = 0
    /\ Len(cmds) = 1 /\ manifest_path # <<>> /\ ~manifest_exists

\* C10: the reset-tracking command is issued only after the answer y or yes
\* (case-insensitive, blanks around it ignored); after a blank or any other
\* answer no command is issued and the program is back at the menu.
Confirmed(answer) == lower(strip(answer)) \in {<<"y">>, <<"y", "e", "s">>}

C10_ResetOnlyWhenConfirmed ==
    Pull =>
      /\ (\E i \in 1..Len(cmds) : cmds[i].name = "sf project reset tracking") =>
           menu_choice = <<"5">> /\ Confirmed(line)
      /\ (menu_choice = <<"5">> /\ pc # "reset_tracking" /\ ~Confirmed(line)) =>
           cmds = <<>> /\ running = {} /\ pc = "menu" /\ exit_code = 0

C10_Witness ==
    /\ Pull /\ menu_choice = <<"5">> /\ pc = "menu"
    /\ line = <<"y", "e">> /\ cmds = <<>> /\ exit_code = 0

\* C11: pull-by-path issues exactly one retrieval command with one
\* --source-dir flag per path entered, in input order; when the input yields
\* no path it issues no command and warns, so a retrieval command without a
\* path filter is never issued from this handler.
C11_Entered(typed) == stripped_nonblank(split(typed, ","))

C11_SourceDirs(c) ==
    LET at == {k \in 1..(Len(c.args) - 1) : c.args[k] = Flag("--source-dir")}
        RECURSIVE pick(_)
        pick(k) == IF k > Len(c.args) THEN <<>>
                   ELSE (IF k \in at THEN <<c.args[k + 1]>> ELSE <<>>) \o pick(k + 1)
    IN  pick(1)

PathsRead == Pull /\ menu_choice = <<"3">> /\ pc # "pull_by_paths"

C11_OneFlagPerPath ==
    PathsRead =>
      IF C11_Entered(line) = <<>>
      THEN /\ cmds = <<>> /\ exit_code = 0
           /\ pc = "menu" => warned = <<WarnNoPaths>>
      ELSE /\ Len(cmds) <= 1
           /\ pc = "menu" => Len(cmds) = 1
           /\ \A i \in 1..Len(cmds) :
                /\ cmds[i].name = "sf project retrieve start"
                /\ C11_SourceDirs(cmds[i]) = C11_Entered(line)

\* What pull-by-path does on every input other than a list of blank entries
\* (not a claim; the part of C11 the code keeps)
C11_WhenAPathOrNothingIsTyped ==
    (PathsRead /\ (C11_Entered(line) # <<>> \/ strip(line) = <<>>)) => C11_OneFlagPerPath

\* C12: the menu loop sends choices 1 to 5 to their handler and then shows
\* the menu again, answers any other input but 6 with a warning and the menu
\* again, with no command and no termination, and is left only by choice 6
\* (exit code 0) or by a fatal condition (exit code 1); while neither has
\* happened the program is at the menu or in the handler chosen last.
C12_Handler(choice) ==
    CASE choice = <<"1">> -> {"pull_everything"}
      [] choice = <<"2">> -> {"pull_by_types", "types_extra", "types_run"}
      [] choice = <<"3">> -> {"pull_by_paths", "paths_run"}
      [] choice = <<"4">> -> {"pull_by_manifest", "manifest_ask", "manifest_mkdir",
                              "manifest_generate", "manifest_check", "manifest_run"}
      [] choice = <<"5">> -> {"reset_tracking", "reset_run"}
      [] OTHER -> {}

C12_Entry(choice) ==
    CASE choice = <<"1">> -> "pull_everything"
      [] choice = <<"2">> -> "pull_by_types"
      [] choice = <<"3">> -> "pull_by_paths"
      [] choice = <<"4">> -> "pull_by_manifest"
      [] choice = <<"5">> -> "reset_tracking"

Handled == {<<"1">>, <<"2">>, <<"3">>, <<"4">>, <<"5">>}
Ended == {"done", "exited", "crashed"}

C12_MenuLoop ==
    /\ [](Pull /\ pc # "main" =>
            /\ pc = "done" => menu_choice = <<"6">> /\ exit_code = 0
            /\ menu_choice = <<"6">> => pc = "done"
            /\ pc \in {"exited", "crashed"} => exit_code = 1
            /\ pc \notin Ended =>
                 /\ exit_code = 0
                 /\ pc = "menu" \/ pc \in C12_Handler(menu_choice)
            /\ (rounds >= 1 /\ menu_choice \notin Handled \cup {<<"6">>}) =>
                 /\ pc = "menu" /\ exit_code = 0
                 /\ warned = <<WarnInvalidChoice>> /\ cmds = <<>> /\ running = {})
    /\ [][(Pull /\ pc = "menu" /\ menu_choice' \in Handled) =>
              pc' = C12_Entry(menu_choice')]_vars

C12_Witness ==
    /\ Pull /\ rounds = 2 /\ pc = "menu" /\ exit_code = 0
    /\ menu_choice = <<"7">> /\ warned = <<WarnInvalidChoice>> /\ cmds = <<>>

=============================================================================
